---- MODULE Spec2Model ----
(***************************************************************************)
(* Moderation-and-generation pipeline of the fun-writing AI agents         *)
(* service.  Two deployments of the same service exist in the repository:  *)
(*   "tools"  : main.py      + tools/*.py   (direct Gemini calls)          *)
(*   "agents" : main_old.py  + agents/*.py  (calls through adk.LlmAgent)   *)
(* The generative model is an untrusted environment: each call either      *)
(* raises, returns a response without text, or returns arbitrary text.     *)
(*                                                                         *)
(* Python dicts are modelled as functions whose DOMAIN is the set of keys  *)
(* present; dict.get(k, d) is Get(o, k, d).  Model text is a sequence of   *)
(* tokens: the two fence markers, one JSON document, or junk.  Surrounding *)
(* whitespace (str.strip) carries no token.  A list of issues is modelled  *)
(* by its length.                                                          *)
(***************************************************************************)
EXTENDS Integers, Sequences, FiniteSets, TLC

VARIABLES
    version,     \* which deployment is running: "tools" or "agents"
    apiKey,      \* GOOGLE_API_KEY / GEMINI_API_KEY is set
    pc,          \* position of the request being handled
    flow,        \* endpoint of the request being handled
    calls,       \* generate_content calls issued for this request, in order
    safetyIn,    \* what the safety model call did (kind, text shape)
    evalIn,      \* what the evaluation model call did (kind, text shape)
    verdict,     \* the SafetyVerdict dict of this request
    feedback,    \* the WritingFeedback dict of this request
    resp,        \* the HTTP response of this request
    \* ImageSafetyAgent.validate_image_batch
    bpc,         \* position of the batch call: "idle", "loop", "returned"
    image_urls,  \* the batch's URLs: what fetching and judging each one gives
    results,     \* the verdicts appended so far
    all_safe,    \* the running conjunction
    batch_result,   \* the dict the batch call returned
    \* /generate-image and /generate-video
    safety_enabled, \* ENABLE_IMAGE_SAFETY is "true"
    prompt,         \* what prompt generation returned
    contents,       \* the prompt the generation capability was invoked with
    poll_count,     \* status polls issued for the video operation
    operation_done, \* operation.done as last seen
    waiting,        \* another request has arrived and is not handled yet
    stages,         \* the stages this request has run, each with its outcome
    stored,         \* the objects this request has put in the bucket
    \* one application of a function of the program
    args,           \* the arguments it is applied to
    returned        \* what it returned

serviceVars == <<version, apiKey, pc, flow, calls, safetyIn, evalIn, verdict, feedback, resp>>
batchVars == <<bpc, image_urls, results, all_safe, batch_result>>

mediaVars == <<safety_enabled, prompt, contents, poll_count, operation_done, waiting,
               stages, stored>>

fnVars == <<args, returned>>

vars == <<serviceVars, batchVars, mediaVars, fnVars>>

\* the variables a specification of one part leaves alone
outsideService == <<batchVars, mediaVars, fnVars>>
outsideBatch == <<serviceVars, mediaVars, fnVars>>
outsideMedia == <<batchVars, fnVars, evalIn, feedback>>
outsideFn == <<serviceVars, batchVars, mediaVars>>

----------------------------------------------------------------------------
(* Bounds of the environment *)

MaxIssues == 1      \* a model verdict lists 0..MaxIssues issues
MaxBatch == 2       \* a batch holds 0..MaxBatch image URLs
IndexSpan == 8      \* a request's imageIndex lies in -IndexSpan..IndexSpan
MaxMembers == 2     \* a JSON object is written with 0..MaxMembers members
MaxParts == 2       \* an image response's candidate holds 0..MaxParts parts
ScoreOver == 1      \* model scores reach ScoreOver beyond either end of 0..25

----------------------------------------------------------------------------
(* Python values *)

None == "None"                 \* Python None / JSON null
EmptyDict == <<>>              \* {}

Get(o, k, d) == IF k \in DOMAIN o THEN o[k] ELSE d

Opt(k, Vals) == {EmptyDict} \cup {k :> v : v \in Vals}

Min(a, b) == IF a < b THEN a ELSE b
Max(a, b) == IF a > b THEN a ELSE b

----------------------------------------------------------------------------
(* Text returned by the model *)

FenceJson == [tok |-> "fence_json"]   \* three backticks followed by json
Fence == [tok |-> "fence"]            \* three backticks
FenceTag == [tok |-> "fence_tag"]     \* three backticks followed by another tag
Tag == [tok |-> "tag"]                \* that tag, left without its backticks
Junk == [tok |-> "junk"]
JsonArray == [tok |-> "array"]
JsonObject(o) == [tok |-> "object", obj |-> o]
JsonMembers(ms) == [tok |-> "members", members |-> ms]   \* {k: v, k: v, ...}

Wrappers == {"plain", "json", "bare"}

Wrap(w, body) ==
    CASE w = "plain" -> <<body>>
      [] w = "json" -> <<FenceJson, body, Fence>>
      [] w = "bare" -> <<Fence, body, Fence>>

Front(s) == SubSeq(s, 1, Len(s) - 1)

StartsWith(t, tk) == Len(t) > 0 /\ t[1].tok = tk.tok
EndsWith(t, tk) == Len(t) > 0 /\ t[Len(t)].tok = tk.tok

StripFence(t) ==
    LET a == IF StartsWith(t, FenceJson) THEN Tail(t)
             ELSE IF StartsWith(t, Fence) THEN Tail(t)
             ELSE IF StartsWith(t, FenceTag) THEN <<Tag>> \o Tail(t)
             ELSE t
    IN IF EndsWith(a, Fence) THEN Front(a) ELSE a

RECURSIVE DictOf(_)
\* the dict json.loads builds from the members of an object: for a key
\* written twice the later value stays
DictOf(ms) ==
    IF ms = <<>> THEN EmptyDict
    ELSE (ms[Len(ms)][1] :> ms[Len(ms)][2]) @@ DictOf(Front(ms))

\* json.loads: a document parses, anything else is a JSONDecodeError
JsonLoads(t) ==
    IF Len(t) = 1 /\ t[1].tok \in {"object", "array"}
    THEN [ok |-> TRUE, val |-> t[1]]
    ELSE IF Len(t) = 1 /\ t[1].tok = "members"
    THEN [ok |-> TRUE, val |-> JsonObject(DictOf(t[1].members))]
    ELSE [ok |-> FALSE]

IsDict(v) == v.tok = "object"

\* a JSON list is modelled by its length; NotAList is a JSON value that has
\* no len() (null, a number, true)
NotAList == -1
IsList(v) == v >= 0

----------------------------------------------------------------------------
(* Outcomes of one generate_content call *)

Raised == [kind |-> "raise"]           \* transport failure: the call raises
NoText == [kind |-> "notext"]          \* blocked response: .text raises
Text(t, w, b) == [kind |-> "text", text |-> t, fenced |-> (w # "plain"), body |-> b]

\* what is remembered of a call once its result has been used
Shape(o) == IF o.kind = "text"
            THEN [kind |-> "text", fenced |-> o.fenced, body |-> o.body]
            ELSE [kind |-> o.kind]
NoCall == [kind |-> "nocall"]
NoKeyCall == [kind |-> "nokey"]

\* the failure text LlmAgent.run hands back in place of an exception
ErrorJson == <<JsonObject([error |-> "error", success |-> FALSE])>>

LlmAgentRun(o) ==
    IF o.kind = "raise" THEN ErrorJson
    ELSE IF o.kind = "notext" THEN ErrorJson
    ELSE StripFence(o.text)

\* every text the model may answer with, for a given set of JSON objects
Texts(Objects) ==
    {Text(Wrap(w, JsonObject(obj)), w, "object") : w \in Wrappers, obj \in Objects}
    \cup {Text(Wrap(w, JsonArray), w, "array") : w \in Wrappers}
    \cup {Text(Wrap(w, Junk), w, "junk") : w \in Wrappers}

Outcomes(Objects) == {Raised, NoText} \cup Texts(Objects)

----------------------------------------------------------------------------
(* Safety verdicts *)

RiskLevels == {"none", "high", "unknown"}
Recommendations == {"approve", "block"}
ModelAlert == "alert written by the model"

SafetyObjects ==
    {a @@ b @@ c @@ d @@ e :
        a \in Opt("isSafe", BOOLEAN),
        b \in Opt("riskLevel", RiskLevels),
        c \in Opt("issues", 0..MaxIssues),
        d \in Opt("recommendation", Recommendations),
        e \in Opt("alertMessage", {None, ModelAlert})}

SafetyOutcomes == Outcomes(SafetyObjects)

\* ContentSafetyAgent._create_error_response
ContentErrorResponse(message) ==
    [isSafe |-> TRUE,
     riskLevel |-> "unknown",
     issues |-> 0,
     recommendation |-> "review",
     alertMessage |-> message \o " Your submission will be reviewed.",
     error |-> message]

\* ContentSafetyAgent.validate_content, given what the model call did
ValidateContent(o) ==
    LET parsed == JsonLoads(LlmAgentRun(o)) IN
    IF ~parsed.ok
    THEN ContentErrorResponse("Failed to parse safety analysis. Manual review recommended.")
    ELSE IF ~IsDict(parsed.val)
    THEN ContentErrorResponse("Safety check encountered an error")
    ELSE LET result == parsed.val.obj
             safety_result ==
                 [isSafe |-> Get(result, "isSafe", TRUE),
                  riskLevel |-> Get(result, "riskLevel", "none"),
                  issues |-> Get(result, "issues", 0),
                  recommendation |-> Get(result, "recommendation", "approve"),
                  alertMessage |-> Get(result, "alertMessage", None)]
         IN \* flagged content is logged with len(issues)
            IF ~safety_result.isSafe /\ ~IsList(safety_result.issues)
            THEN ContentErrorResponse("Safety check encountered an error")
            ELSE safety_result

\* ContentSafetyAgent.validate_ai_output, given what the model call did
ValidateAiOutput(o) ==
    LET parsed == JsonLoads(LlmAgentRun(o))
        \* the dict of the except-branch
        error_result == [isSafe |-> FALSE,
                         riskLevel |-> "unknown",
                         issues |-> 0,
                         recommendation |-> "regenerate",
                         error |-> "Exception"]
    IN
    IF ~parsed.ok THEN error_result
    ELSE IF ~IsDict(parsed.val) THEN error_result
    ELSE LET result == parsed.val.obj IN
         [isSafe |-> Get(result, "isSafe", TRUE),
          riskLevel |-> Get(result, "riskLevel", "none"),
          issues |-> Get(result, "issues", 0),
          recommendation |-> Get(result, "recommendation", "approve")]

\* the two except-branches of check_content_safety
ToolsContentParseError ==
    [isSafe |-> FALSE,
     riskLevel |-> "unknown",
     issues |-> 0,
     recommendation |-> "review",
     alertMessage |-> "Unable to verify content safety. Manual review required.",
     error |-> "JSONDecodeError"]

ToolsContentError ==
    [isSafe |-> FALSE,
     riskLevel |-> "unknown",
     issues |-> 0,
     recommendation |-> "review",
     alertMessage |-> "Safety check temporarily unavailable. Manual review required.",
     error |-> "Exception"]

FlaggedAlert(issue_count) ==
    "This content has been flagged for review. We found " \o ToString(issue_count)
    \o " potential " \o (IF issue_count = 1 THEN "issue" ELSE "issues")

\* check_content_safety, given the credential and what the model call did
CheckContentSafety(key, o) ==
    IF ~key THEN ToolsContentError
    ELSE IF o.kind \in {"raise", "notext"} THEN ToolsContentError
    ELSE LET parsed == JsonLoads(StripFence(o.text)) IN
         IF ~parsed.ok THEN ToolsContentParseError
         ELSE IF ~IsDict(parsed.val) THEN ToolsContentError
         ELSE LET result == parsed.val.obj
                  safety_result ==
                      [isSafe |-> Get(result, "isSafe", TRUE),
                       riskLevel |-> Get(result, "riskLevel", "none"),
                       issues |-> Get(result, "issues", 0),
                       recommendation |-> Get(result, "recommendation", "approve"),
                       alertMessage |-> None]
              IN IF ~safety_result.isSafe /\ ~IsList(safety_result.issues)
                 THEN ToolsContentError      \* len(issues) raises
                 ELSE IF ~safety_result.isSafe
                 THEN [safety_result EXCEPT !.alertMessage = FlaggedAlert(safety_result.issues)]
                 ELSE safety_result

----------------------------------------------------------------------------
(* Image safety *)

\* what fetching the image URL gives: bytes of an image, bytes that are not
\* an image, or a failed download
Fetches == {"image", "not_an_image", "download_failed"}

\* mutant: the image fallback copied from the content fallback (fail-open)
ImageErrorResponse_FailOpen(message) ==
    [isSafe |-> TRUE,
     riskLevel |-> "unknown",
     issues |-> 0,
     recommendation |-> "review",
     alertMessage |-> message \o " This image will be reviewed before display.",
     error |-> message]

\* ImageSafetyAgent._create_error_response
ImageErrorResponse(message) ==
    [isSafe |-> FALSE,
     riskLevel |-> "unknown",
     issues |-> 0,
     recommendation |-> "review",
     alertMessage |-> message \o " This image will be reviewed before display.",
     error |-> message]

\* ImageSafetyAgent.validate_image: the vision call goes to the genai client
\* directly and its text is parsed as it is
ValidateImage(fetch, o) ==
    IF fetch = "download_failed"
    THEN ImageErrorResponse("Failed to download image for analysis")
    ELSE IF fetch = "not_an_image"
    THEN ImageErrorResponse("Failed to load image")
    ELSE IF o.kind \in {"raise", "notext"}
    THEN ImageErrorResponse("Image safety check encountered an error")
    ELSE LET parsed == JsonLoads(o.text) IN
         IF ~parsed.ok
         THEN ImageErrorResponse("Failed to parse image safety analysis")
         ELSE IF ~IsDict(parsed.val)
         THEN ImageErrorResponse("Image safety check encountered an error")
         ELSE LET result == parsed.val.obj
                  safety_result ==
                      [isSafe |-> Get(result, "isSafe", TRUE),
                       riskLevel |-> Get(result, "riskLevel", "none"),
                       issues |-> Get(result, "issues", 0),
                       recommendation |-> Get(result, "recommendation", "approve"),
                       alertMessage |-> Get(result, "alertMessage", None)]
              IN \* a flagged image is logged with len(issues)
                 IF ~safety_result.isSafe /\ ~IsList(safety_result.issues)
                 THEN ImageErrorResponse("Image safety check encountered an error")
                 ELSE safety_result

\* the two except-branches of validate_image_safety
ToolsImageParseError ==
    [isSafe |-> FALSE,
     riskLevel |-> "unknown",
     issues |-> 0,
     recommendation |-> "review",
     alertMessage |-> "Unable to verify image safety. Manual review required.",
     error |-> "JSONDecodeError"]

ToolsImageError ==
    [isSafe |-> FALSE,
     riskLevel |-> "unknown",
     issues |-> 0,
     recommendation |-> "review",
     alertMessage |-> "Safety check temporarily unavailable. Manual review required.",
     error |-> "Exception"]

ImageFlaggedAlert == "This image has been flagged and will be reviewed."

\* validate_image_safety
ValidateImageSafety(key, fetch, o) ==
    IF fetch # "image" THEN ToolsImageError
    ELSE IF ~key THEN ToolsImageError
    ELSE IF o.kind \in {"raise", "notext"} THEN ToolsImageError
    ELSE LET parsed == JsonLoads(StripFence(o.text)) IN
         IF ~parsed.ok THEN ToolsImageParseError
         ELSE IF ~IsDict(parsed.val) THEN ToolsImageError
         ELSE LET result == parsed.val.obj
                  safety_result ==
                      [isSafe |-> Get(result, "isSafe", TRUE),
                       riskLevel |-> Get(result, "riskLevel", "none"),
                       issues |-> Get(result, "issues", 0),
                       recommendation |-> Get(result, "recommendation", "approve"),
                       alertMessage |-> None]
              IN IF ~safety_result.isSafe
                 THEN [safety_result EXCEPT !.alertMessage = ImageFlaggedAlert]
                 ELSE safety_result

----------------------------------------------------------------------------
(* Writing scorer *)

ScoreSamples == {0 - ScoreOver, 12, 25 + ScoreOver}
Dimensions == {"grammar", "spelling", "relevance", "creativity"}
ModelComment == "comment written by the model"

DimensionData == {EmptyDict} \cup {[score |-> sc] : sc \in ScoreSamples}

EvalObjects ==
    {g @@ sp @@ r @@ c @@ gc @@ ts :
        g \in Opt("grammar", DimensionData),
        sp \in Opt("spelling", DimensionData),
        r \in Opt("relevance", DimensionData),
        c \in Opt("creativity", DimensionData),
        gc \in Opt("generalComment", {ModelComment}),
        ts \in Opt("totalScore", {100})}

\* the objects the evaluation model answers with: those above, and those
\* with a dimension written as a value that is no JSON object (a number, a
\* string, null), whose .get raises AttributeError
EvalAnswers == EvalObjects \cup {d :> [tok |-> "scalar"] : d \in Dimensions}

EvalOutcomes == Outcomes(EvalAnswers)

\* result.get(d, {}).get(...) goes through for each of the four dimensions
DimensionsAreDicts(result) ==
    \A d \in Dimensions : "tok" \notin DOMAIN Get(result, d, EmptyDict)

default_scores == [grammar |-> 15, spelling |-> 18, relevance |-> 16, creativity |-> 17]

\* mutant: the clamp without its lower end
Clamp_UpperOnly(score) == Min(25, score)

Clamp(score) == Max(0, Min(25, score))

\* FeedbackAgent._validate_dimension (the score it returns)
ValidateDimension(dimension_data, dimension_name) ==
    Clamp(Get(dimension_data, "score", default_scores[dimension_name]))

\* mutant: the top band starts above 90
GenerateGeneralComment_Above90(score) ==
    IF score > 90 THEN "Excellent work! Your writing is outstanding."
    ELSE IF score >= 75 THEN "Great job! Your writing shows solid skills and creativity."
    ELSE IF score >= 60 THEN "Good work! You're making progress."
    ELSE IF score >= 50 THEN "Nice effort! Keep practicing."
    ELSE "Good start! This is a learning journey."

\* _generate_general_comment (the same table in both versions)
GenerateGeneralComment(score) ==
    IF score >= 90 THEN "Excellent work! Your writing is outstanding."
    ELSE IF score >= 75 THEN "Great job! Your writing shows solid skills and creativity."
    ELSE IF score >= 60 THEN "Good work! You're making progress."
    ELSE IF score >= 50 THEN "Nice effort! Keep practicing."
    ELSE "Good start! This is a learning journey."

\* mutant: a totalScore written by the model is taken over
BuildFeedback_TrustTotal(result) ==
    LET grammar == ValidateDimension(Get(result, "grammar", EmptyDict), "grammar")
        spelling == ValidateDimension(Get(result, "spelling", EmptyDict), "spelling")
        relevance == ValidateDimension(Get(result, "relevance", EmptyDict), "relevance")
        creativity == ValidateDimension(Get(result, "creativity", EmptyDict), "creativity")
        total_score == Get(result, "totalScore", grammar + spelling + relevance + creativity)
    IN [totalScore |-> total_score,
        breakdown |-> [grammar |-> grammar, spelling |-> spelling,
                       relevance |-> relevance, creativity |-> creativity],
        generalComment |-> Get(result, "generalComment", GenerateGeneralComment(total_score))]

\* the feedback dict both versions build from a parsed model response
BuildFeedback(result) ==
    LET grammar == ValidateDimension(Get(result, "grammar", EmptyDict), "grammar")
        spelling == ValidateDimension(Get(result, "spelling", EmptyDict), "spelling")
        relevance == ValidateDimension(Get(result, "relevance", EmptyDict), "relevance")
        creativity == ValidateDimension(Get(result, "creativity", EmptyDict), "creativity")
        total_score == grammar + spelling + relevance + creativity
    IN [totalScore |-> total_score,
        breakdown |-> [grammar |-> grammar, spelling |-> spelling,
                       relevance |-> relevance, creativity |-> creativity],
        generalComment |-> Get(result, "generalComment", GenerateGeneralComment(total_score))]

\* FeedbackAgent.evaluate_submission: returns the feedback or raises
EvaluateSubmission(o) ==
    LET parsed == JsonLoads(LlmAgentRun(o)) IN
    IF ~parsed.ok
    THEN [raised |-> TRUE, error |-> "Failed to parse evaluation results"]
    ELSE IF ~IsDict(parsed.val)
    THEN [raised |-> TRUE, error |-> "AttributeError"]
    ELSE IF ~DimensionsAreDicts(parsed.val.obj)
    THEN [raised |-> TRUE, error |-> "AttributeError"]
    ELSE [raised |-> FALSE, feedback |-> BuildFeedback(parsed.val.obj)]

\* analyze_student_writing, "Extract and validate scores" onwards
ToolsBuildFeedback(result) ==
    LET grammar == Get(result, "grammar", EmptyDict)
        spelling == Get(result, "spelling", EmptyDict)
        relevance == Get(result, "relevance", EmptyDict)
        creativity == Get(result, "creativity", EmptyDict)
        grammar_score == Max(0, Min(25, Get(grammar, "score", 15)))
        spelling_score == Max(0, Min(25, Get(spelling, "score", 18)))
        relevance_score == Max(0, Min(25, Get(relevance, "score", 16)))
        creativity_score == Max(0, Min(25, Get(creativity, "score", 17)))
        total_score == grammar_score + spelling_score + relevance_score + creativity_score
    IN [totalScore |-> total_score,
        breakdown |-> [grammar |-> grammar_score, spelling |-> spelling_score,
                       relevance |-> relevance_score, creativity |-> creativity_score],
        generalComment |-> Get(result, "generalComment", GenerateGeneralComment(total_score))]

\* step 2 of analyze_student_writing: the dict it returns
ToolsEvaluate(key, o, safety_result) ==
    IF ~key
    THEN [success |-> FALSE, error |-> "No API key found for Gemini",
          safetyCheck |-> safety_result]
    ELSE IF o.kind \in {"raise", "notext"}
    THEN [success |-> FALSE, error |-> "Exception", safetyCheck |-> safety_result]
    ELSE LET parsed == JsonLoads(StripFence(o.text)) IN
         IF ~parsed.ok
         THEN [success |-> FALSE, error |-> "Failed to parse evaluation results",
               safetyCheck |-> safety_result]
         ELSE IF ~IsDict(parsed.val)
         THEN [success |-> FALSE, error |-> "AttributeError",
               safetyCheck |-> safety_result]
         ELSE IF ~DimensionsAreDicts(parsed.val.obj)
         THEN [success |-> FALSE, error |-> "AttributeError",
               safetyCheck |-> safety_result]
         ELSE LET fb == ToolsBuildFeedback(parsed.val.obj) IN
              [success |-> TRUE, score |-> fb.totalScore, feedback |-> fb,
               safetyCheck |-> safety_result]

\* step 1 of analyze_student_writing when the verdict is not safe
ToolsBlockedResult(safety_result) ==
    [success |-> FALSE,
     blocked |-> TRUE,
     safetyCheck |-> safety_result,
     alertMessage |-> Get(safety_result, "alertMessage", None),
     recommendation |-> Get(safety_result, "recommendation", None)]

----------------------------------------------------------------------------
(* HTTP handlers *)

HttpError(code, detail) == [status |-> code, detail |-> detail]

\* main.py analyze_writing: the response for a tool result
MainAnalyzeResponse(result) ==
    IF ~result.success
    THEN [status |-> 200,
          success |-> FALSE,
          blocked |-> Get(result, "blocked", FALSE),
          safetyCheck |-> Get(result, "safetyCheck", EmptyDict),
          alertMessage |-> Get(result, "alertMessage", None),
          recommendation |-> Get(result, "recommendation", None)]
    ELSE [status |-> 200,
          success |-> TRUE,
          score |-> result.score,
          feedback |-> result.feedback,
          safetyCheck |-> Get(result, "safetyCheck", EmptyDict)]

\* main_old.py analyze_writing: the response for a verdict that is not safe
OldBlockedResponse(safety_result) ==
    [status |-> 200,
     success |-> FALSE,
     safetyCheck |-> safety_result,
     blocked |-> TRUE,
     alertMessage |-> Get(safety_result, "alertMessage", "This content has been flagged for review."),
     recommendation |-> Get(safety_result, "recommendation", "review")]

\* main_old.py analyze_writing, steps 2 and 3 and the return
DbOutcomes == {"no_db", "saved", "save_failed"}

OldEvaluateResponse(evaluation_result, db, safety_result) ==
    IF evaluation_result.raised
    THEN HttpError(500, evaluation_result.error)
    ELSE IF db = "save_failed"
    THEN HttpError(500, "database error")
    ELSE [status |-> 200,
          success |-> TRUE,
          safetyCheck |-> safety_result,
          feedback |-> evaluation_result.feedback,
          score |-> evaluation_result.feedback.totalScore]

\* /validate-image in main.py and main_old.py: the same response
ValidateImageResponse(safety_result) ==
    LET response == [status |-> 200,
                     success |-> TRUE,
                     safetyCheck |-> safety_result,
                     isSafe |-> safety_result.isSafe,
                     blocked |-> ~safety_result.isSafe]
    IN IF ~safety_result.isSafe
       THEN response @@ [alertMessage |->
                Get(safety_result, "alertMessage", ImageFlaggedAlert)]
       ELSE response

----------------------------------------------------------------------------
(* The service *)

\* no batch call is in progress
BatchIdle ==
    /\ bpc = "idle"
    /\ image_urls = <<>>
    /\ results = <<>>
    /\ all_safe = TRUE
    /\ batch_result = EmptyDict

\* a JSON value as the prompt checks see it: its type and its truth value
NoPrompt == [type |-> "none", truthy |-> FALSE]
NotInvoked == [type |-> "not invoked", truthy |-> FALSE]

\* no function application is recorded
FnIdle == args = EmptyDict /\ returned = EmptyDict

\* no generation request is in progress
MediaIdle ==
    /\ prompt = NoPrompt
    /\ contents = NotInvoked
    /\ poll_count = 0
    /\ operation_done = FALSE
    /\ waiting = FALSE
    /\ stages = <<>>
    /\ stored = {}

Init ==
    /\ version \in {"tools", "agents"}
    /\ apiKey \in BOOLEAN
    /\ version = "agents" => apiKey    \* main_old.py does not start without the key
    /\ pc = "idle"
    /\ flow = "none"
    /\ calls = <<>>
    /\ safetyIn = NoCall
    /\ evalIn = NoCall
    /\ verdict = EmptyDict
    /\ feedback = EmptyDict
    /\ resp = EmptyDict
    /\ BatchIdle
    /\ safety_enabled = FALSE
    /\ MediaIdle
    /\ FnIdle

\* POST /analyze-writing arrives
ReceiveAnalyzeWriting ==
    /\ pc = "idle"
    /\ pc' = "safety"
    /\ flow' = "analyze-writing"
    /\ UNCHANGED <<version, apiKey, calls, safetyIn, evalIn, verdict, feedback, resp>>
    /\ UNCHANGED outsideService

\* step 1: the content safety check
SafetyCheck ==
    /\ pc = "safety"
    /\ IF version = "agents"
       THEN \E o \in SafetyOutcomes :
               /\ verdict' = ValidateContent(o)
               /\ safetyIn' = Shape(o)
               /\ calls' = Append(calls, "safety")
       ELSE IF ~apiKey
       THEN /\ verdict' = CheckContentSafety(apiKey, Raised)
            /\ safetyIn' = NoKeyCall
            /\ calls' = calls
       ELSE \E o \in SafetyOutcomes :
               /\ verdict' = CheckContentSafety(apiKey, o)
               /\ safetyIn' = Shape(o)
               /\ calls' = Append(calls, "safety")
    /\ pc' = "gate"
    /\ UNCHANGED <<version, apiKey, flow, evalIn, feedback, resp>>
    /\ UNCHANGED outsideService

\* mutant: the gate reads the recommendation instead of isSafe
Blocks_ByRecommendation(safety_result) == safety_result.recommendation = "block"

\* "if not safety_result["isSafe"]": the verdict blocks the submission
Blocks(safety_result) == ~safety_result.isSafe

\* the gate after the safety check: answer blocked, or go on to the evaluation

SafetyGate ==
    /\ pc = "gate"
    /\ IF Blocks(verdict)
       THEN /\ resp' = IF version = "agents"
                       THEN OldBlockedResponse(verdict)
                       ELSE MainAnalyzeResponse(ToolsBlockedResult(verdict))
            /\ pc' = "done"
       ELSE /\ resp' = resp
            /\ pc' = "eval"
    /\ UNCHANGED <<version, apiKey, flow, calls, safetyIn, evalIn, verdict, feedback>>
    /\ UNCHANGED outsideService

\* step 2 (and, in main_old.py, step 3): evaluate the writing and answer
Evaluate ==
    /\ pc = "eval"
    /\ IF version = "agents"
       THEN \E o \in EvalOutcomes, db \in DbOutcomes :
               LET evaluation_result == EvaluateSubmission(o) IN
               /\ db # "no_db" => ~evaluation_result.raised
               /\ calls' = Append(calls, "eval")
               /\ evalIn' = Shape(o) @@ [db |-> db]
               /\ feedback' = IF evaluation_result.raised THEN EmptyDict
                               ELSE evaluation_result.feedback
               /\ resp' = OldEvaluateResponse(evaluation_result, db, verdict)
       ELSE IF ~apiKey
       THEN LET result == ToolsEvaluate(apiKey, Raised, verdict) IN
            /\ calls' = calls
            /\ evalIn' = NoKeyCall
            /\ feedback' = EmptyDict
            /\ resp' = MainAnalyzeResponse(result)
       ELSE \E o \in EvalOutcomes :
               LET result == ToolsEvaluate(apiKey, o, verdict) IN
               /\ calls' = Append(calls, "eval")
               /\ evalIn' = Shape(o)
               /\ feedback' = Get(result, "feedback", EmptyDict)
               /\ resp' = MainAnalyzeResponse(result)
    /\ pc' = "done"
    /\ UNCHANGED <<version, apiKey, flow, safetyIn, verdict>>
    /\ UNCHANGED outsideService

\* POST /validate-image, the whole handler
ValidateImageRequest ==
    /\ pc = "idle"
    /\ \E fetch \in Fetches :
          IF fetch # "image" \/ ~apiKey
          THEN /\ verdict' = IF version = "agents" THEN ValidateImage(fetch, Raised)
                              ELSE ValidateImageSafety(apiKey, fetch, Raised)
               /\ safetyIn' = IF fetch # "image" THEN [kind |-> fetch] ELSE NoKeyCall
               /\ calls' = calls
          ELSE \E o \in SafetyOutcomes :
               /\ verdict' = IF version = "agents" THEN ValidateImage(fetch, o)
                              ELSE ValidateImageSafety(apiKey, fetch, o)
               /\ safetyIn' = Shape(o)
               /\ calls' = Append(calls, "vision")
    /\ resp' = ValidateImageResponse(verdict')
    /\ flow' = "validate-image"
    /\ pc' = "done"
    /\ UNCHANGED <<version, apiKey, evalIn, feedback>>
    /\ UNCHANGED outsideService

\* the response is sent; the server waits for the next request
Respond ==
    /\ pc = "done"
    /\ pc' = "idle"
    /\ flow' = "none"
    /\ calls' = <<>>
    /\ safetyIn' = NoCall
    /\ evalIn' = NoCall
    /\ verdict' = EmptyDict
    /\ feedback' = EmptyDict
    /\ resp' = EmptyDict
    /\ UNCHANGED <<version, apiKey>>
    /\ UNCHANGED outsideService

Next ==
    \/ ReceiveAnalyzeWriting
    \/ SafetyCheck
    \/ SafetyGate
    \/ Evaluate
    \/ ValidateImageRequest
    \/ Respond

Spec == Init /\ [][Next]_vars

----------------------------------------------------------------------------
(* Batch image validation (agents deployment) *)

\* the server is up and handles no request
NoRequest ==
    /\ pc = "idle"
    /\ flow = "none"
    /\ calls = <<>>
    /\ safetyIn = NoCall
    /\ evalIn = NoCall
    /\ verdict = EmptyDict
    /\ feedback = EmptyDict
    /\ resp = EmptyDict

\* the JSON objects the vision model answers with in a batch
BatchObjects ==
    {a @@ c : a \in Opt("isSafe", BOOLEAN),
              c \in Opt("issues", (0..MaxIssues) \cup {NotAList})}

BatchReplies ==
    {Raised}
    \cup {Text(Wrap("plain", JsonObject(obj)), "plain", "object") : obj \in BatchObjects}
    \cup {Text(Wrap("plain", Junk), "plain", "junk")}

\* one URL of a batch, as what its download and its vision call will give
ImageUrls ==
    {[fetch |-> f, reply |-> Raised] : f \in Fetches \ {"image"}}
    \cup {[fetch |-> "image", reply |-> r] : r \in BatchReplies}

UrlLists == UNION {[1..n -> ImageUrls] : n \in 0..MaxBatch}

RECURSIVE SumIssues(_)
\* sum(len(r["issues"]) for r in results)
SumIssues(rs) ==
    IF rs = <<>> THEN 0 ELSE rs[1].issues + SumIssues(Tail(rs))

\* sum(1 for r in results if not r["isSafe"])
FlaggedImages(rs) == Cardinality({i \in 1..Len(rs) : ~rs[i].isSafe})

\* the except-branch of validate_image_batch
BatchError == [allSafe |-> FALSE, error |-> "Exception"]

\* validate_image_batch is called with a list of URLs
BatchReceive ==
    /\ bpc = "idle"
    /\ \E urls \in UrlLists : image_urls' = urls
    /\ results' = <<>>
    /\ all_safe' = TRUE
    /\ batch_result' = EmptyDict
    /\ bpc' = "loop"
    /\ UNCHANGED outsideBatch

\* one turn of the loop: validate the next URL and append its verdict
BatchValidateOne ==
    /\ bpc = "loop"
    /\ Len(results) < Len(image_urls)
    /\ LET image_url == image_urls[Len(results) + 1]
           result == ValidateImage(image_url.fetch, image_url.reply)
       IN /\ results' = Append(results, result)
          /\ all_safe' = IF ~result.isSafe THEN FALSE ELSE all_safe
    /\ UNCHANGED <<bpc, image_urls, batch_result>>
    /\ UNCHANGED outsideBatch

\* after the loop: aggregate and return
BatchAggregate ==
    /\ bpc = "loop"
    /\ Len(results) = Len(image_urls)
    /\ batch_result' =
          IF \E i \in 1..Len(results) : ~IsList(results[i].issues)
          THEN BatchError
          ELSE [allSafe |-> all_safe,
                totalImages |-> Len(image_urls),
                flaggedImages |-> FlaggedImages(results),
                totalIssues |-> SumIssues(results),
                results |-> results]
    /\ bpc' = "returned"
    /\ UNCHANGED <<image_urls, results, all_safe>>
    /\ UNCHANGED outsideBatch

\* the caller has the result; the agent waits for the next batch
BatchDone ==
    /\ bpc = "returned"
    /\ bpc' = "idle"
    /\ image_urls' = <<>>
    /\ results' = <<>>
    /\ all_safe' = TRUE
    /\ batch_result' = EmptyDict
    /\ UNCHANGED outsideBatch

BatchInit ==
    /\ version = "agents"
    /\ apiKey = TRUE
    /\ NoRequest
    /\ BatchIdle
    /\ safety_enabled = FALSE
    /\ MediaIdle
    /\ FnIdle

BatchNext ==
    \/ BatchReceive
    \/ BatchValidateOne
    \/ BatchAggregate
    \/ BatchDone

BatchSpec == BatchInit /\ [][BatchNext]_vars

----------------------------------------------------------------------------
(* Image and video generation *)

max_polls == 120

\* the JSON values the prompt model may put in the prompt field
PromptValues ==
    {[type |-> t, truthy |-> b] : t \in {"str", "list", "number"}, b \in BOOLEAN}
EmptyStr == [type |-> "str", truthy |-> FALSE]
IsStr(v) == v.type = "str"          \* isinstance(v, str)
HasLen(v) == v.type \in {"str", "list"}

PromptField(endpoint) ==
    IF endpoint = "generate-image" THEN "prompt" ELSE "videoActionPrompt"

PromptOutcomes(field) == Outcomes(Opt(field, PromptValues))

PromptRaised(message) == [raised |-> TRUE, error |-> message]
PromptReturned(v) == [raised |-> FALSE, prompt |-> v]

\* VisualMediaAgent.generate_image_prompt and generate_video_prompt
GeneratePrompt(o, field) ==
    LET parsed == JsonLoads(LlmAgentRun(o)) IN
    IF ~parsed.ok THEN PromptRaised("Agent returned invalid JSON")
    ELSE IF ~IsDict(parsed.val) THEN PromptRaised("AttributeError")
    ELSE LET result == parsed.val.obj IN
         IF ~Get(result, "success", TRUE) \/ "error" \in DOMAIN result
         THEN PromptRaised("Agent error")
         ELSE LET prompt_text == Get(result, field, EmptyStr) IN
              IF ~IsStr(prompt_text) THEN PromptRaised("Prompt is not a string")
              ELSE IF ~prompt_text.truthy
              THEN PromptRaised("Empty prompt returned from agent")
              ELSE PromptReturned(prompt_text)

\* "if not prompt or not isinstance(prompt, str)" in main_old.py
PromptAccepted(r) == ~r.raised /\ r.prompt.truthy /\ IsStr(r.prompt)

\* _generate_image_prompt and _generate_video_prompt of the tools
ToolsGeneratePrompt(key, o, field) ==
    IF ~key THEN PromptRaised("Exception")
    ELSE IF o.kind \in {"raise", "notext"} THEN PromptRaised("Exception")
    ELSE LET parsed == JsonLoads(StripFence(o.text)) IN
         IF ~parsed.ok THEN PromptRaised("JSONDecodeError")
         ELSE IF ~IsDict(parsed.val) THEN PromptRaised("AttributeError")
         ELSE PromptReturned(Get(parsed.val.obj, field, EmptyStr))

\* "if not prompt: raise", then len(prompt) in the log line
ToolsPromptAccepted(r) == ~r.raised /\ r.prompt.truthy /\ HasLen(r.prompt)

\* mutant: a failed stage is answered like a blocked image, with HTTP 200
MediaFailure_Http200(error) == [status |-> 200, success |-> FALSE, error |-> error]

\* the JSONResponse of a failed stage
MediaFailure(error) == [status |-> 500, success |-> FALSE, error |-> error]

TimedOut == "Video generation timed out after 10 minutes"

\* the tool wraps what its Veo block raises
VeoError(message) ==
    IF version = "tools" THEN "Veo API error: " \o message ELSE message

\* one stage of a generation request and whether it returned success
Stage(name, success) == [stage |-> name, ok |-> success]

\* the object an upload leaves in the bucket, readable at its public URL;
\* nothing in the program deletes an object
StoredObject(endpoint) ==
    [url |-> "url", media |-> IF endpoint = "generate-image" THEN "image" ELSE "video"]

\* POST /generate-image or /generate-video arrives
ReceiveGenerate ==
    /\ pc = "idle"
    /\ \E endpoint \in {"generate-image", "generate-video"} : flow' = endpoint
    /\ pc' = "prompt"
    /\ UNCHANGED <<version, apiKey, calls, safetyIn, verdict, resp>>
    /\ UNCHANGED mediaVars
    /\ UNCHANGED outsideMedia

\* step 1: the prompt model writes the prompt
GenerateMediaPrompt ==
    /\ pc = "prompt"
    /\ \E o \in (IF version = "tools" /\ ~apiKey THEN {Raised}
                 ELSE PromptOutcomes(PromptField(flow))) :
          LET r == IF version = "agents" THEN GeneratePrompt(o, PromptField(flow))
                   ELSE ToolsGeneratePrompt(apiKey, o, PromptField(flow))
              accepted == IF version = "agents" THEN PromptAccepted(r)
                          ELSE ToolsPromptAccepted(r)
          IN /\ prompt' = IF r.raised THEN NoPrompt ELSE r.prompt
             /\ stages' = Append(stages, Stage("prompt", accepted))
             /\ IF accepted
                THEN pc' = "generate" /\ resp' = resp
                ELSE /\ pc' = "done"
                     /\ resp' = MediaFailure(IF r.raised THEN r.error
                                             ELSE "Failed to generate prompt")
    /\ calls' = Append(calls, "prompt")
    /\ UNCHANGED <<version, apiKey, flow, safetyIn, verdict>>
    /\ UNCHANGED <<safety_enabled, contents, poll_count, operation_done, waiting, stored>>
    /\ UNCHANGED outsideMedia

\* step 2 of /generate-image: the image model is invoked with the prompt
GenerateImage ==
    /\ pc = "generate"
    /\ flow = "generate-image"
    /\ contents' = prompt
    /\ calls' = Append(calls, "image")
    /\ \E outcome \in {"image", "no image", "raise"} :
          /\ stages' = Append(stages, Stage("generate", outcome = "image"))
          /\ IF outcome = "image"
             THEN pc' = "upload" /\ resp' = resp
             ELSE /\ pc' = "done"
                  /\ resp' = MediaFailure(IF version = "tools"
                                          THEN "Gemini API error" ELSE "Exception")
    /\ UNCHANGED <<version, apiKey, flow, safetyIn, verdict>>
    /\ UNCHANGED <<safety_enabled, prompt, poll_count, operation_done, waiting, stored>>
    /\ UNCHANGED outsideMedia

\* step 2 of /generate-video: the video operation is started with the prompt
StartVideo ==
    /\ pc = "generate"
    /\ flow = "generate-video"
    /\ contents' = prompt
    /\ calls' = Append(calls, "video")
    /\ poll_count' = 0
    /\ \E outcome \in {"running", "done", "raise"} :
          IF outcome = "raise"
          THEN /\ pc' = "done"
               /\ resp' = MediaFailure(VeoError("Exception"))
               /\ operation_done' = FALSE
               /\ stages' = Append(stages, Stage("generate", FALSE))
          ELSE /\ pc' = "poll"
               /\ resp' = resp
               /\ operation_done' = (outcome = "done")
               /\ stages' = stages
    /\ UNCHANGED <<version, apiKey, flow, safetyIn, verdict>>
    /\ UNCHANGED <<safety_enabled, prompt, waiting, stored>>
    /\ UNCHANGED outsideMedia

\* mutant: the limit is tested one poll late
PollLimitReached_Late(count) == count > max_polls

\* "if poll_count >= max_polls"
PollLimitReached(count) == count >= max_polls

\* the head of the poll loop: "while not operation.done", then the limit
PollCheck ==
    /\ pc = "poll"
    /\ IF operation_done
       THEN pc' = "download" /\ resp' = resp /\ stages' = stages
       ELSE IF PollLimitReached(poll_count)
       THEN /\ pc' = "done"
            /\ resp' = MediaFailure(VeoError(TimedOut))
            /\ stages' = Append(stages, Stage("generate", FALSE))
       ELSE pc' = "sleep" /\ resp' = resp /\ stages' = stages
    /\ UNCHANGED <<version, apiKey, flow, calls, safetyIn, verdict>>
    /\ UNCHANGED <<safety_enabled, prompt, contents, poll_count, operation_done, waiting,
                   stored>>
    /\ UNCHANGED outsideMedia

\* the body of the poll loop: time.sleep(5), operations.get, poll_count += 1
PollWait ==
    /\ pc = "sleep"
    /\ \E outcome \in {"running", "done", "raise"} :
          IF outcome = "raise"
          THEN /\ pc' = "done"
               /\ resp' = MediaFailure(VeoError("Exception"))
               /\ stages' = Append(stages, Stage("generate", FALSE))
               /\ UNCHANGED <<poll_count, operation_done>>
          ELSE /\ pc' = "poll"
               /\ resp' = resp
               /\ operation_done' = (outcome = "done")
               /\ poll_count' = poll_count + 1
               /\ stages' = stages
    /\ UNCHANGED <<version, apiKey, flow, calls, safetyIn, verdict>>
    /\ UNCHANGED <<safety_enabled, prompt, contents, waiting, stored>>
    /\ UNCHANGED outsideMedia

\* after the loop: the generated video is downloaded
DownloadVideo ==
    /\ pc = "download"
    /\ \E outcome \in {"video", "no video", "raise"} :
          /\ stages' = Append(stages, Stage("generate", outcome = "video"))
          /\ IF outcome = "video"
             THEN pc' = "upload" /\ resp' = resp
             ELSE pc' = "done" /\ resp' = MediaFailure(VeoError("Exception"))
    /\ UNCHANGED <<version, apiKey, flow, calls, safetyIn, verdict>>
    /\ UNCHANGED <<safety_enabled, prompt, contents, poll_count, operation_done, waiting,
                   stored>>
    /\ UNCHANGED outsideMedia

\* the /generate-video success response
VideoResponse ==
    IF version = "tools"
    THEN [status |-> 200, success |-> TRUE, videoUrl |-> "url", prompt |-> prompt]
    ELSE [status |-> 200, success |-> TRUE, videoUrl |-> "url"]

\* the image or the video is uploaded to the bucket
Upload ==
    /\ pc = "upload"
    /\ calls' = Append(calls, "upload")
    /\ \E uploaded \in BOOLEAN :
          /\ stages' = Append(stages, Stage("upload", uploaded))
          /\ stored' = IF uploaded THEN stored \cup {StoredObject(flow)} ELSE stored
          /\ IF ~uploaded
             THEN pc' = "done" /\ resp' = MediaFailure("Upload failed")
             ELSE IF flow = "generate-video"
             THEN IF version = "agents"
                  THEN pc' = "save" /\ resp' = resp
                  ELSE pc' = "done" /\ resp' = VideoResponse
             ELSE pc' = "imgsafety" /\ resp' = resp
    /\ UNCHANGED <<version, apiKey, flow, safetyIn, verdict>>
    /\ UNCHANGED <<safety_enabled, prompt, contents, poll_count, operation_done, waiting>>
    /\ UNCHANGED outsideMedia

\* the verdict main.py substitutes when ENABLE_IMAGE_SAFETY is not "true"
SafetyDisabledVerdict ==
    [isSafe |-> TRUE, riskLevel |-> "none", reasoning |-> "Safety validation disabled"]

\* the verdict main_old.py puts in place of the commented-out validation
OldSafetyDisabledVerdict ==
    [isSafe |-> TRUE,
     riskLevel |-> "none",
     issues |-> 0,
     recommendation |-> "approve",
     reasoning |-> "Safety check temporarily disabled for debugging",
     alertMessage |-> None]

ImageResponse(safety_check) ==
    [status |-> 200, success |-> TRUE, imageUrl |-> "url", prompt |-> prompt,
     safetyCheck |-> safety_check]

UnsafeImageResponse(safety_result) ==
    [status |-> 200, success |-> FALSE, error |-> "Image failed safety validation",
     alertMessage |-> safety_result.alertMessage, safetyCheck |-> safety_result]

\* the safety step of /generate-image and its response
ImageSafetyStep ==
    /\ pc = "imgsafety"
    /\ IF version = "agents"
       THEN /\ verdict' = OldSafetyDisabledVerdict
            /\ UNCHANGED <<safetyIn, calls, stages, resp>>
            /\ pc' = "save"
       ELSE IF ~safety_enabled
       THEN /\ verdict' = SafetyDisabledVerdict
            /\ UNCHANGED <<safetyIn, calls, stages>>
            /\ resp' = ImageResponse(verdict')
            /\ pc' = "done"
       ELSE /\ stages' = Append(stages, Stage("validate", TRUE))
            /\ \E fetch \in Fetches :
                  IF fetch # "image" \/ ~apiKey
                  THEN /\ verdict' = ValidateImageSafety(apiKey, fetch, Raised)
                       /\ safetyIn' = IF fetch # "image" THEN [kind |-> fetch]
                                       ELSE NoKeyCall
                       /\ calls' = calls
                  ELSE \E o \in SafetyOutcomes :
                       /\ verdict' = ValidateImageSafety(apiKey, fetch, o)
                       /\ safetyIn' = Shape(o)
                       /\ calls' = Append(calls, "vision")
            /\ resp' = IF ~verdict'.isSafe THEN UnsafeImageResponse(verdict')
                       ELSE ImageResponse(verdict')
            /\ pc' = "done"
    /\ UNCHANGED <<version, apiKey, flow>>
    /\ UNCHANGED <<safety_enabled, prompt, contents, poll_count, operation_done, waiting,
                   stored>>
    /\ UNCHANGED outsideMedia

\* the last step of main_old.py: the media record is saved, if a database
\* is configured, and the handler answers
SaveMediaRecord ==
    /\ pc = "save"
    /\ \E db \in DbOutcomes :
          /\ stages' = IF db = "no_db" THEN stages
                        ELSE Append(stages, Stage("save", db = "saved"))
          /\ resp' = IF db = "save_failed" THEN MediaFailure("database error")
                      ELSE IF flow = "generate-video" THEN VideoResponse
                      ELSE ImageResponse(verdict)
    /\ pc' = "done"
    /\ UNCHANGED <<version, apiKey, flow, calls, safetyIn, verdict>>
    /\ UNCHANGED <<safety_enabled, prompt, contents, poll_count, operation_done, waiting,
                   stored>>
    /\ UNCHANGED outsideMedia

\* the response is sent; the handler returns
MediaRespond ==
    /\ pc = "done"
    /\ pc' = "idle"
    /\ flow' = "none"
    /\ calls' = <<>>
    /\ safetyIn' = NoCall
    /\ verdict' = EmptyDict
    /\ resp' = EmptyDict
    /\ prompt' = NoPrompt
    /\ contents' = NotInvoked
    /\ poll_count' = 0
    /\ operation_done' = FALSE
    /\ stages' = <<>>
    /\ stored' = {}
    /\ UNCHANGED <<version, apiKey, safety_enabled, waiting>>
    /\ UNCHANGED outsideMedia

\* the one event loop of uvicorn takes up a request only when no handler is
\* running on it; the handlers above never suspend (their awaits run
\* synchronous code, and the poll wait is time.sleep)
LoopFree == pc = "idle"

\* another request arrives at the server
OtherArrives ==
    /\ ~waiting
    /\ waiting' = TRUE
    /\ UNCHANGED <<safety_enabled, prompt, contents, poll_count, operation_done,
                   stages, stored>>
    /\ UNCHANGED <<serviceVars, batchVars, fnVars>>

\* the event loop handles the other request
ServeOther ==
    /\ waiting
    /\ LoopFree
    /\ waiting' = FALSE
    /\ UNCHANGED <<safety_enabled, prompt, contents, poll_count, operation_done,
                   stages, stored>>
    /\ UNCHANGED <<serviceVars, batchVars, fnVars>>

MediaInit ==
    /\ version \in {"tools", "agents"}
    /\ apiKey \in BOOLEAN
    /\ version = "agents" => apiKey
    /\ NoRequest
    /\ BatchIdle
    /\ safety_enabled \in BOOLEAN
    /\ MediaIdle
    /\ FnIdle

MediaNext ==
    \/ ReceiveGenerate
    \/ GenerateMediaPrompt
    \/ GenerateImage
    \/ StartVideo
    \/ PollCheck
    \/ PollWait
    \/ DownloadVideo
    \/ Upload
    \/ ImageSafetyStep
    \/ SaveMediaRecord
    \/ MediaRespond
    \/ OtherArrives
    \/ ServeOther

MediaSpec == MediaInit /\ [][MediaNext]_vars

\* the handler's thread keeps running: the sleep returns, and the status
\* request returns or raises
MediaFairSpec == MediaSpec /\ WF_vars(PollCheck) /\ WF_vars(PollWait)

----------------------------------------------------------------------------
(* The request sent to the prompt model for an image *)

scene_descriptions ==
    <<"the opening scene or setting",
      "a key moment or action in the middle",
      "the climax or most exciting part",
      "the resolution or ending",
      "an important character or creature",
      "a magical or special object mentioned">>

ImageStyles == {"standard", "comic", "manga", "princess", "watercolor"}

\* list[k] of Python: k counts from 0, a negative k counts from the end
PyItem(list, k) ==
    IF 0 <= k /\ k < Len(list) THEN [raised |-> FALSE, item |-> list[k + 1]]
    ELSE IF k < 0 /\ 0 - k <= Len(list)
    THEN [raised |-> FALSE, item |-> list[Len(list) + k + 1]]
    ELSE [raised |-> TRUE]

\* mutant: the index is not clamped to the list
SceneIndex_NoClamp(image_index) == image_index - 1

\* min(image_index - 1, len(scene_descriptions) - 1)
SceneIndex(image_index) == Min(image_index - 1, Len(scene_descriptions) - 1)

safety_guidelines == "Avoid: violence, scary imagery, adult themes, dark themes, weapons."

\* _get_style_instructions: the block as the set of its statements
StyleInstructions(image_style) ==
    CASE image_style = "comic" ->
             {"HERO COMIC STYLE", "Colors: Bright, bold, saturated colors", safety_guidelines}
      [] image_style = "manga" ->
             {"BLACK AND WHITE MANGA STYLE", "Colors: BLACK AND WHITE only", safety_guidelines}
      [] image_style = "princess" ->
             {"PRINCESS COMIC STYLE", "Colors: Soft pastels, pinks, purples, golds",
              safety_guidelines}
      [] OTHER ->
             {"colorful, child-friendly illustration", safety_guidelines}

\* the request the prompt model is sent: its scene focus and its style block
ImagePromptRequest(image_index, image_style) ==
    LET scene_desc == PyItem(scene_descriptions, SceneIndex(image_index)) IN
    IF scene_desc.raised THEN [raised |-> TRUE, error |-> "IndexError"]
    ELSE [raised |-> FALSE,
          image_index |-> image_index,
          scene_desc |-> scene_desc.item,
          style_instructions |-> StyleInstructions(image_style)]

SceneInit ==
    /\ version \in {"tools", "agents"}
    /\ apiKey = TRUE
    /\ NoRequest
    /\ BatchIdle
    /\ safety_enabled = FALSE
    /\ MediaIdle
    /\ args \in [image_index : (0 - IndexSpan)..IndexSpan, image_style : ImageStyles]
    /\ returned = EmptyDict

\* generate_image_prompt builds its request
BuildImagePromptRequest ==
    /\ DOMAIN returned = {}
    /\ returned' = ImagePromptRequest(args.image_index, args.image_style)
    /\ UNCHANGED args
    /\ UNCHANGED outsideFn

SceneNext == BuildImagePromptRequest

SceneSpec == SceneInit /\ [][SceneNext]_vars

----------------------------------------------------------------------------
(* Extraction of a JSON object from model text *)

\* a fence written around a payload: none, json-tagged, bare, tagged with
\* another language, or two json-tagged layers
ExtractWrappers == Wrappers \cup {"tag", "double"}

WrapText(w, body) ==
    CASE w \in Wrappers -> Wrap(w, body)
      [] w = "tag" -> <<FenceTag, body, Fence>>
      [] w = "double" -> <<FenceJson, FenceJson, body, Fence, Fence>>

MemberKeys == {"a", "b"}
MemberValues == {"x", None}

\* the payloads: an object written member by member (a key may repeat),
\* an array, or text that is no JSON
Payloads ==
    {JsonMembers(ms) :
        ms \in UNION {[1..n -> MemberKeys \X MemberValues] : n \in 0..MaxMembers}}
    \cup {JsonArray, Junk}

\* the cleanup of LlmAgent.run and of the tools, then json.loads
Extract(t) == JsonLoads(StripFence(t))

RECURSIVE MembersOf(_)
MembersOf(o) ==
    IF DOMAIN o = {} THEN <<>>
    ELSE LET k == CHOOSE x \in DOMAIN o : TRUE
         IN <<<<k, o[k]>>>> \o MembersOf([x \in DOMAIN o \ {k} |-> o[x]])

\* mutant: members whose value is null are left out
JsonDumps_SkipNull(o) ==
    <<JsonMembers(MembersOf([k \in {x \in DOMAIN o : o[x] # None} |-> o[k]]))>>

\* json.dumps of a dict
JsonDumps(o) == <<JsonMembers(MembersOf(o))>>

ExtractInit ==
    /\ version \in {"tools", "agents"}
    /\ apiKey = TRUE
    /\ NoRequest
    /\ BatchIdle
    /\ safety_enabled = FALSE
    /\ MediaIdle
    /\ args \in [wrapper : ExtractWrappers, body : Payloads]
    /\ returned = EmptyDict

\* the model's text is cleaned and parsed
ExtractText ==
    /\ DOMAIN returned = {}
    /\ returned' = [first |-> Extract(WrapText(args.wrapper, args.body))]
    /\ UNCHANGED args
    /\ UNCHANGED outsideFn

\* the object is serialized and the text is cleaned and parsed again
ExtractAgain ==
    /\ DOMAIN returned = {"first"}
    /\ returned.first.ok
    /\ IsDict(returned.first.val)
    /\ returned' = [first |-> returned.first,
                    again |-> Extract(JsonDumps(returned.first.val.obj))]
    /\ UNCHANGED args
    /\ UNCHANGED outsideFn

ExtractNext ==
    \/ ExtractText
    \/ ExtractAgain

ExtractSpec == ExtractInit /\ [][ExtractNext]_vars

----------------------------------------------------------------------------
(* The gateway to the model *)

\* LlmAgent.run as its caller sees it: every path of its try block and both
\* of its except blocks end in "return AgentResponse(...)"
AgentRun(o) == [raised |-> FALSE, content |-> LlmAgentRun(o)]

\* LlmAgent.run with its images argument, which holds nothing ("none"), the
\* bytes of an image, bytes that are no image, or a value that is not bytes
\* (a str: a path, a URL, base64 text): bytes go through Image.open inside
\* the try block, anything else is appended to the content parts as it is
\* ("Assume it's already a PIL Image")
AgentRunWithImages(image_data, o) ==
    IF image_data = "none" THEN AgentRun(o) @@ [invoked |-> TRUE]
    ELSE IF image_data = "undecodable bytes"
    THEN [raised |-> FALSE, content |-> ErrorJson, invoked |-> FALSE]
    ELSE AgentRun(o) @@ [invoked |-> TRUE]

GatewayInit ==
    /\ version = "agents"
    /\ apiKey = TRUE
    /\ NoRequest
    /\ BatchIdle
    /\ safety_enabled = FALSE
    /\ MediaIdle
    /\ args \in [outcome : SafetyOutcomes,
                  image_data : {"none", "image bytes", "undecodable bytes", "str"}]
    /\ returned = EmptyDict

\* an agent awaits self.agent.run(prompt)
RunAgent ==
    /\ DOMAIN returned = {}
    /\ returned' = AgentRunWithImages(args.image_data, args.outcome)
    /\ UNCHANGED args
    /\ UNCHANGED outsideFn

GatewayNext == RunAgent

GatewaySpec == GatewayInit /\ [][GatewayNext]_vars

----------------------------------------------------------------------------
(* The scorer applied to two answers that differ in totalScore only *)

ModelTotals == {0 - ScoreOver, 55, 100 + ScoreOver}

\* the scorer of the running deployment
Scorer(result) ==
    IF version = "agents" THEN BuildFeedback(result) ELSE ToolsBuildFeedback(result)

ScorerInit ==
    /\ version \in {"tools", "agents"}
    /\ apiKey = TRUE
    /\ NoRequest
    /\ BatchIdle
    /\ safety_enabled = FALSE
    /\ MediaIdle
    /\ args \in [result : {o \in EvalObjects : "totalScore" \notin DOMAIN o},
                  totalScore : ModelTotals]
    /\ returned = EmptyDict

\* the answer is scored as it is and with the totalScore field added
ScoreBoth ==
    /\ DOMAIN returned = {}
    /\ returned' = [plain |-> Scorer(args.result),
                    withTotal |-> Scorer(("totalScore" :> args.totalScore) @@ args.result)]
    /\ UNCHANGED args
    /\ UNCHANGED outsideFn

ScorerNext == ScoreBoth

ScorerSpec == ScorerInit /\ [][ScorerNext]_vars

----------------------------------------------------------------------------
(* The text safety evaluators applied to one behaviour of the model *)

TextSafetyInit ==
    /\ version = "agents"
    /\ apiKey = TRUE
    /\ NoRequest
    /\ BatchIdle
    /\ safety_enabled = FALSE
    /\ MediaIdle
    \* what the safety model may do: the outcomes of the service, and answers
    \* whose issues field is no list
    /\ args \in [outcome : SafetyOutcomes \cup
                     {Text(Wrap("plain", JsonObject(obj)), "plain", "object") :
                         obj \in BatchObjects}]
    /\ returned = EmptyDict

\* the same content is judged by both implementations, the model behaving
\* the same way for each
CheckContentBoth ==
    /\ DOMAIN returned = {}
    /\ returned' = [check_content_safety |-> CheckContentSafety(apiKey, args.outcome),
                    validate_content |-> ValidateContent(args.outcome)]
    /\ UNCHANGED args
    /\ UNCHANGED outsideFn

\* ContentSafetyAgent.validate_ai_output is called
CallValidateAiOutput ==
    /\ DOMAIN returned = {}
    /\ returned' = [validate_ai_output |-> ValidateAiOutput(args.outcome)]
    /\ UNCHANGED args
    /\ UNCHANGED outsideFn

TextSafetyNext ==
    \/ CheckContentBoth
    \/ CallValidateAiOutput

TextSafetySpec == TextSafetyInit /\ [][TextSafetyNext]_vars

----------------------------------------------------------------------------
(* The image model: dispatch and extraction of the image data *)

NoneValue == [type |-> "NoneType"]

\* base64.b64decode: from the base64 text of x to the bytes x
b64decode(data) == [type |-> "bytes", raw |-> data.encodes]

\* "not v" for a bytes or str value
IsEmpty(v) == IF v.type = "str" THEN v.encodes = "" ELSE v.raw = ""

\* part.inline_data.data as the SDK hands it over: bytes, or their base64
\* text, of an image file that holds nothing or one of two pictures
InlineData ==
    {[type |-> "bytes", raw |-> x] : x \in {"", "a", "b"}}
    \cup {[type |-> "str", encodes |-> x] : x \in {"", "a", "b"}}

\* what generate_content gives: it raises, or a response without
\* candidates, or one whose first candidate has no content or has parts;
\* a part is text (its inline_data is None) or carries inline data
ImageResponses ==
    LET parts == {[inline_data |-> NoneValue]} \cup {[inline_data |-> d] : d \in InlineData}
    IN {[kind |-> "raise"], [kind |-> "response", candidates |-> <<>>],
        [kind |-> "response", candidates |-> <<[has_content |-> FALSE, parts |-> <<>>]>>]}
       \cup {[kind |-> "response", candidates |-> <<[has_content |-> TRUE, parts |-> ps]>>] :
                ps \in UNION {[1..n -> parts] : n \in 0..MaxParts}}

\* mutant: princess is not among the panel styles
AspectRatio_NoPrincess(image_style) ==
    IF image_style \in {"comic", "manga"} THEN "2:3" ELSE "16:9"

\* "2:3" if image_style in ['comic', 'manga', 'princess'] else "16:9"
AspectRatio(image_style) ==
    IF image_style \in {"comic", "manga", "princess"} THEN "2:3" ELSE "16:9"

RECURSIVE FindInlineData(_)
\* the loop over the parts: the first part whose inline_data is not None
\* sets image_data and breaks
FindInlineData(parts) ==
    IF parts = <<>> THEN NoneValue
    ELSE IF parts[1].inline_data # NoneValue
    THEN LET data == parts[1].inline_data IN
         IF data.type = "str" THEN b64decode(data) ELSE data
    ELSE FindInlineData(Tail(parts))

\* the tool wraps what its Gemini block raises
GeminiError(message) ==
    [raised |-> TRUE,
     error |-> IF version = "tools" THEN "Gemini API error: " \o message ELSE message]

\* generate_image_with_gemini / the Gemini block of generate_image_from_writing,
\* from the response onwards
ExtractImageData(response) ==
    IF response.kind = "raise" THEN GeminiError("Exception")
    ELSE IF Len(response.candidates) = 0 THEN GeminiError("No image generated from Gemini")
    ELSE LET candidate == response.candidates[1] IN
         IF ~candidate.has_content \/ Len(candidate.parts) = 0
         THEN GeminiError("Invalid response structure")
         ELSE LET image_data == FindInlineData(candidate.parts) IN
              IF image_data = NoneValue THEN GeminiError("No image data in response")
              ELSE IF IsEmpty(image_data) THEN GeminiError("No image data in response")
              ELSE [raised |-> FALSE, image_data |-> image_data]

ImageGenInit ==
    /\ version \in {"tools", "agents"}
    /\ apiKey = TRUE
    /\ NoRequest
    /\ BatchIdle
    /\ safety_enabled = FALSE
    /\ MediaIdle
    /\ args \in [image_style : ImageStyles, response : ImageResponses]
    /\ returned = EmptyDict

\* the image model is called with the style's aspect ratio and its response
\* is searched for the image
DispatchImage ==
    /\ DOMAIN returned = {}
    /\ returned' = [aspect_ratio |-> AspectRatio(args.image_style),
                    result |-> ExtractImageData(args.response)]
    /\ UNCHANGED args
    /\ UNCHANGED outsideFn

ImageGenNext == DispatchImage

ImageGenSpec == ImageGenInit /\ [][ImageGenNext]_vars

----------------------------------------------------------------------------
(* Vocabulary of the properties *)

HasVerdict == DOMAIN verdict # {}
HasFeedback == DOMAIN feedback # {}
Has(o, k, v) == k \in DOMAIN o /\ o[k] = v

\* the model call did not come back with text: transport failure, blocked
\* response or missing credential
CallFailed(in) == in.kind \in {"raise", "notext", "nokey"}

\* the model answered, but not with a JSON object
NotAnObject(in) == in.kind = "text" /\ in.body # "object"

CheckFailed(in) == CallFailed(in) \/ NotAnObject(in)

\* the image could not be evaluated: no image, no answer, or an answer that
\* json.loads does not turn into an object (validate_image parses the text
\* with its fences on)
ImageCheckFailed(in) ==
    \/ in.kind \in {"download_failed", "not_an_image"}
    \/ CheckFailed(in)
    \/ (version = "agents" /\ in.kind = "text" /\ in.fenced)

AnalyzeDone == flow = "analyze-writing" /\ pc = "done"

----------------------------------------------------------------------------
(* Properties *)

C2_ContentFailOpen ==
    (flow = "analyze-writing" /\ HasVerdict /\ CheckFailed(safetyIn)) =>
        verdict.isSafe = TRUE /\ verdict.riskLevel = "unknown"

\* C3: an image-safety verdict returned when the download fails, the bytes
\* are no image, the model call fails or the model's text does not parse has
\* isSafe = false, riskLevel = "unknown" and recommendation = "review".
C3_ImageFailClosed ==
    (flow = "validate-image" /\ HasVerdict /\ ImageCheckFailed(safetyIn)) =>
        /\ verdict.isSafe = FALSE
        /\ verdict.riskLevel = "unknown"
        /\ verdict.recommendation = "review"

C3_Witness ==
    /\ flow = "validate-image" /\ pc = "done"
    /\ version = "agents"
    /\ safetyIn.kind = "text" /\ safetyIn.body = "junk"
    /\ verdict.isSafe = FALSE
    /\ Has(resp, "blocked", TRUE)

\* C4: in every verdict of either evaluator, on the normal path and on the
\* fallback paths, alertMessage is null whenever isSafe is true.
C4_NoAlertWhenSafe ==
    (HasVerdict /\ verdict.isSafe = TRUE) => verdict.alertMessage = None

\* C5: in every feedback the scorer returns each of the four breakdown
\* scores lies in 0..25, totalScore is their sum, and 0 <= totalScore <= 100.
C5_ScoresClamped ==
    HasFeedback =>
        /\ \A d \in Dimensions : feedback.breakdown[d] \in 0..25
        /\ feedback.totalScore =
               feedback.breakdown.grammar + feedback.breakdown.spelling
               + feedback.breakdown.relevance + feedback.breakdown.creativity
        /\ feedback.totalScore \in 0..100

C5_Witness ==
    /\ HasFeedback
    /\ evalIn.kind = "text"
    /\ feedback.breakdown.grammar = 0
    /\ feedback.breakdown.spelling = 25
    /\ feedback.breakdown.relevance = 16
    /\ feedback.breakdown.creativity = 12
    /\ feedback.totalScore = 53

\* C6: when the evaluation call fails or its text is not a JSON object the
\* scorer reports a hard failure and returns no feedback built from default
\* scores.
C6_NoFeedbackOnFailure ==
    (AnalyzeDone /\ CheckFailed(evalIn)) =>
        /\ ~HasFeedback
        /\ resp.status = 500 \/ Has(resp, "success", FALSE)

\* C7: when the content-safety check cannot be completed the flow does not
\* block the submission: it does not answer blocked = true, and it goes on
\* to the evaluation with the verdict flagged for review.
C7_FailedCheckDoesNotBlock ==
    (flow = "analyze-writing" /\ pc \in {"eval", "done"} /\ CheckFailed(safetyIn)) =>
        /\ ~Has(resp, "blocked", TRUE)
        /\ verdict.recommendation = "review"
        /\ pc = "done" => evalIn.kind # "nocall"

\* C8: the response for a submission whose verdict has isSafe = false is
\* HTTP 200 with success = false and a non-null alertMessage.
C8_BlockedHasAlert ==
    (AnalyzeDone /\ verdict.isSafe = FALSE) =>
        /\ resp.status = 200
        /\ Has(resp, "success", FALSE)
        /\ "alertMessage" \in DOMAIN resp /\ resp.alertMessage # None

\* C9: a request that hits an infrastructure or contract failure is answered
\* with HTTP 500, and HTTP 200 with success = false is returned only for
\* content that a safety verdict blocked.  Stated for the failures that no
\* safety evaluator turns into a verdict: those of the evaluation call and of
\* saving the feedback.
HardFailure == CheckFailed(evalIn) \/ Has(evalIn, "db", "save_failed")

C9_FailuresAre500 ==
    AnalyzeDone =>
        /\ HardFailure => resp.status >= 500
        /\ (resp.status = 200 /\ Has(resp, "success", FALSE)) =>
               /\ verdict.isSafe = FALSE
               /\ Has(resp, "blocked", TRUE)

\* C10: a verdict has riskLevel = "unknown" only if it was produced by a
\* fallback path (those carry the "error" key); no verdict built from a
\* parsed model response has it.
C10_UnknownOnlyFromFallback ==
    (HasVerdict /\ verdict.riskLevel = "unknown") => "error" \in DOMAIN verdict

\* C11: for every list of image URLs the batch call returns a results list
\* of the same length whose element i is the verdict of URL i, with allSafe
\* the conjunction of the verdicts' isSafe, flaggedImages the number of
\* verdicts with isSafe = false and totalIssues the sum of their issue counts.
C11_BatchAggregates ==
    bpc = "returned" =>
        /\ "results" \in DOMAIN batch_result
        /\ Len(batch_result.results) = Len(image_urls)
        /\ \A i \in 1..Len(image_urls) :
              batch_result.results[i]
                  = ValidateImage(image_urls[i].fetch, image_urls[i].reply)
        /\ batch_result.allSafe
              = (\A i \in 1..Len(image_urls) : batch_result.results[i].isSafe)
        /\ batch_result.flaggedImages = FlaggedImages(batch_result.results)
        /\ batch_result.totalIssues = SumIssues(batch_result.results)

\* C12: the image or video generation capability is invoked only with a
\* prompt that is a non-empty string; a prompt-model answer that does not
\* parse, lacks the field, or carries an empty or non-string value ends the
\* request with an error and nothing is passed on.
C12_PromptIsNonEmptyString ==
    contents # NotInvoked => IsStr(contents) /\ contents.truthy

InPollLoop == pc \in {"poll", "sleep"}
IsTimeout(r) == "error" \in DOMAIN r /\ r.error = VeoError(TimedOut)

PollLoopBounds ==
    /\ poll_count <= max_polls
    /\ pc = "sleep" => poll_count < max_polls
    /\ pc = "download" => operation_done
    /\ (pc = "done" /\ IsTimeout(resp)) => (poll_count = max_polls /\ ~operation_done)

PollLoopExit ==
    (pc = "poll" /\ pc' # "poll") =>
        IF operation_done THEN pc' = "download"
        ELSE IF poll_count = max_polls THEN pc' = "done" /\ IsTimeout(resp')
        ELSE pc' = "sleep"

\* C13: the video poll loop always terminates: every status poll is one of
\* the first 120, the loop goes on to the download when the operation is
\* done at or before the 120th poll, and the request fails with the timeout
\* error exactly when the operation is still not done after 120 polls.
C13_PollLoopTerminates ==
    /\ []PollLoopBounds
    /\ [][PollLoopExit]_vars
    /\ (InPollLoop ~> ~InPollLoop)

\* the operation was still running after the 120th poll
C13_Witness ==
    pc = "done" /\ flow = "generate-video" /\ IsTimeout(resp)
        /\ poll_count = max_polls

\* C14: while a request waits between two video-generation polls, another
\* request that has arrived at the server can be handled.
C14_WaitDoesNotBlock ==
    (pc = "sleep" /\ waiting) => ENABLED ServeOther

\* C15: for every scene index i >= 1 the request names entry min(i, 6) of
\* the six scene descriptions (1 the opening scene, anything above 6 the
\* last entry), and for style "manga" its instruction block holds the
\* black-and-white-only constraint.
C15_SceneAndStyle ==
    (DOMAIN returned # {} /\ args.image_index >= 1) =>
        /\ ~returned.raised
        /\ returned.scene_desc = scene_descriptions[Min(args.image_index, 6)]
        /\ args.image_index = 1 => returned.scene_desc = "the opening scene or setting"
        /\ args.image_index > 6
              => returned.scene_desc = "a magical or special object mentioned"
        /\ args.image_style = "manga"
              => "Colors: BLACK AND WHITE only" \in returned.style_instructions

\* a manga request for a scene beyond the sixth
C15_Witness ==
    /\ DOMAIN returned # {}
    /\ args.image_index > 6
    /\ args.image_style = "manga"
    /\ ~returned.raised

Extracted == "first" \in DOMAIN returned /\ "body" \in DOMAIN args
OneFence == args.wrapper \in {"json", "bare", "tag"}

\* C16: a JSON object wrapped in one code fence (opened with or without a
\* language tag, closed with a bare fence) extracts to the same object as
\* the unfenced payload; only one fence layer is stripped; text that is not
\* JSON after stripping is a parse failure.
C16_FencedEqualsUnfenced ==
    Extracted =>
        /\ (OneFence /\ args.body.tok = "members")
              => returned.first = Extract(<<args.body>>)
        /\ args.wrapper = "double" => ~returned.first.ok
        /\ args.body = Junk => ~returned.first.ok

EvaluatorRan == safetyIn.kind # "nocall"

\* C17: /generate-image returns the synthetic always-safe verdict only when
\* the image-safety flag is disabled; with the flag enabled the returned
\* verdict is the evaluator's; and a response with success = true carries a
\* verdict with isSafe = true.
C17_SyntheticOnlyWhenDisabled ==
    (flow = "generate-image" /\ pc = "done" /\ "safetyCheck" \in DOMAIN resp) =>
        /\ ~EvaluatorRan => ~safety_enabled
        /\ safety_enabled => (EvaluatorRan /\ resp.safetyCheck = verdict)
        /\ resp.success => resp.safetyCheck.isSafe

\* C18: a gateway call whose request fails in transport fails with an
\* upstream error, one rejected by the model's safety filter fails with a
\* content-blocked error distinct from it, and neither comes back to the
\* caller as an ordinary text result.
C18_GatewayFailuresRaise ==
    ("outcome" \in DOMAIN args /\ DOMAIN returned # {}) =>
        /\ args.outcome.kind \in {"raise", "notext"} => returned.raised
        /\ args.outcome.kind = "raise" => returned.error = "UpstreamError"
        /\ args.outcome.kind = "notext" => returned.error = "ContentBlockedError"

\* C19: two model answers that differ only in a top-level totalScore field
\* are scored with the same totalScore and the same breakdown; the
\* totalScore is the sum of the breakdown, never the model's.
C19_TotalScoreIgnored ==
    "plain" \in DOMAIN returned =>
        /\ returned.withTotal.totalScore = returned.plain.totalScore
        /\ returned.withTotal.breakdown = returned.plain.breakdown
        /\ returned.withTotal.totalScore
              = returned.withTotal.breakdown.grammar + returned.withTotal.breakdown.spelling
                + returned.withTotal.breakdown.relevance
                + returned.withTotal.breakdown.creativity

\* the model wrote a totalScore above 100 next to scores that sum to less
C19_Witness ==
    /\ "plain" \in DOMAIN returned
    /\ args.totalScore > 100
    /\ returned.withTotal.totalScore < args.totalScore
    /\ Dimensions \subseteq DOMAIN args.result

\* C21: when the safety verdict has isSafe = true and the evaluation model
\* returns a parseable JSON object, the analyze-writing flow answers
\* success = true with score equal to feedback.totalScore, a breakdown of
\* exactly the four entries grammar, spelling, relevance and creativity, and
\* the safety verdict attached as safetyCheck.  Stated for the requests
\* whose feedback is not refused by the database.
C21_SafeAndParsedSucceeds ==
    (AnalyzeDone /\ HasVerdict /\ verdict.isSafe = TRUE
        /\ evalIn.kind = "text" /\ evalIn.body = "object"
        /\ ~Has(evalIn, "db", "save_failed")) =>
        /\ Has(resp, "success", TRUE)
        /\ resp.score = resp.feedback.totalScore
        /\ DOMAIN resp.feedback.breakdown = Dimensions
        /\ resp.safetyCheck = verdict

\* C22: when the model's answer has no generalComment field the returned
\* generalComment is the band string of the totalScore (90..100, 75..89,
\* 60..74, 50..59, 0..49); when the field is there the model's comment is
\* returned unchanged.
C22_CommentBands ==
    "plain" \in DOMAIN returned =>
        LET fb == returned.plain
            total == fb.totalScore
        IN IF "generalComment" \in DOMAIN args.result
           THEN fb.generalComment = args.result.generalComment
           ELSE /\ total \in 0..100
                /\ total \in 90..100 =>
                      fb.generalComment = "Excellent work! Your writing is outstanding."
                /\ total \in 75..89 =>
                      fb.generalComment
                          = "Great job! Your writing shows solid skills and creativity."
                /\ total \in 60..74 =>
                      fb.generalComment = "Good work! You're making progress."
                /\ total \in 50..59 => fb.generalComment = "Nice effort! Keep practicing."
                /\ total \in 0..49 =>
                      fb.generalComment = "Good start! This is a learning journey."

\* an answer without a comment, scored exactly 90
C22_Witness ==
    /\ "plain" \in DOMAIN returned
    /\ "generalComment" \notin DOMAIN args.result
    /\ returned.plain.totalScore = 90
    /\ returned.plain.generalComment = "Excellent work! Your writing is outstanding."

\* the image handed to the call is no decodable raster image
Undecodable(image_data) == image_data \in {"undecodable bytes", "str"}

\* C23: whenever an image handed to a vision call cannot be decoded as a
\* raster image, the call fails with an invalid-image error and the
\* generative capability is never invoked for that call.  A failure handed
\* back as the gateway's error document is taken as the call failing.
C23_UndecodableNeverInvokes ==
    ("image_data" \in DOMAIN args /\ DOMAIN returned # {}
        /\ Undecodable(args.image_data)) =>
        /\ returned.raised \/ returned.content = ErrorJson
        /\ ~returned.invoked

\* the parts of the response's first candidate
PartsOf(response) ==
    IF response.kind = "raise" \/ Len(response.candidates) = 0 THEN <<>>
    ELSE response.candidates[1].parts

\* the positions of the parts that carry inline data
InlineAt(parts) == {i \in 1..Len(parts) : parts[i].inline_data.type # "NoneType"}

\* C24: image generation returns the payload of the first response part
\* that carries inline data, base64-decoded when the payload is text and
\* unchanged when it is bytes, and fails with an error when the response has
\* no candidates, no parts, or no part with non-empty inline data.
C24_FirstInlinePayload ==
    ("response" \in DOMAIN args /\ DOMAIN returned # {}
        /\ args.response.kind = "response") =>
        LET parts == PartsOf(args.response)
            result == returned.result
        IN IF \A i \in InlineAt(parts) : IsEmpty(parts[i].inline_data)
           THEN result.raised
           ELSE LET first == CHOOSE i \in InlineAt(parts) :
                                 \A j \in InlineAt(parts) : i <= j
                    data == parts[first].inline_data
                IN /\ ~result.raised
                   /\ data.type = "bytes" => result.image_data = data
                   /\ data.type = "str" =>
                         result.image_data = [type |-> "bytes", raw |-> data.encodes]

\* C25: the image model is asked for aspect ratio 2:3 exactly when the
\* style is comic, manga or princess, and for 16:9 for standard and for
\* every other style value.
C25_AspectRatioByStyle ==
    ("image_style" \in DOMAIN args /\ "aspect_ratio" \in DOMAIN returned) =>
        /\ returned.aspect_ratio \in {"2:3", "16:9"}
        /\ args.image_style = "comic" => returned.aspect_ratio = "2:3"
        /\ args.image_style = "manga" => returned.aspect_ratio = "2:3"
        /\ args.image_style = "princess" => returned.aspect_ratio = "2:3"
        /\ args.image_style = "standard" => returned.aspect_ratio = "16:9"
        /\ returned.aspect_ratio = "2:3"
              => args.image_style \in {"comic", "manga", "princess"}

\* a princess image was generated
C25_Witness ==
    /\ "aspect_ratio" \in DOMAIN returned
    /\ args.image_style = "princess"
    /\ returned.aspect_ratio = "2:3"
    /\ ~returned.result.raised

MediaDone == flow \in {"generate-image", "generate-video"} /\ pc = "done"

\* stage s has returned success before position i of the history
SucceededBefore(s, i) == \E j \in 1..(i - 1) : stages[j] = Stage(s, TRUE)

C27_UnsafeImageNotStored ==
    (MediaDone /\ flow = "generate-image" /\ safety_enabled
        /\ StoredObject("generate-image") \in stored) =>
        (HasVerdict /\ verdict.isSafe = TRUE)

\* C28: validate_image never raises: every call returns a verdict holding
\* both isSafe and issues, so the batch call over any list of URLs returns
\* the aggregate with its results list and never its error-only result.
C28_BatchNeverErrorOnly ==
    /\ \A i \in 1..Len(results) : {"isSafe", "issues"} \subseteq DOMAIN results[i]
    /\ bpc = "returned" =>
          /\ "error" \notin DOMAIN batch_result
          /\ "results" \in DOMAIN batch_result
          /\ batch_result.results = results

\* the validation could not be completed: the model call failed, or its
\* text is no JSON
NotCompleted(o) == o.kind \in {"raise", "notext"} \/ (o.kind = "text" /\ o.body = "junk")

\* C29: validate_ai_output fails closed: whenever the validation cannot be
\* completed, when the model call fails as well as when the model's text is
\* not parseable JSON, it returns isSafe = false with riskLevel = "unknown"
\* and recommendation = "regenerate".
C29_AiOutputFailsClosed ==
    ("validate_ai_output" \in DOMAIN returned /\ NotCompleted(args.outcome)) =>
        /\ returned.validate_ai_output.isSafe = FALSE
        /\ returned.validate_ai_output.riskLevel = "unknown"
        /\ returned.validate_ai_output.recommendation = "regenerate"

\* C30: the two implementations of text safety evaluation agree: for the
\* same content and the same behaviour of the model (any text, or any
\* failure of the call or of parsing) check_content_safety and
\* validate_content return verdicts with the same isSafe, riskLevel and
\* recommendation.
C30_ImplementationsAgree ==
    "validate_content" \in DOMAIN returned =>
        /\ returned.check_content_safety.isSafe = returned.validate_content.isSafe
        /\ returned.check_content_safety.riskLevel = returned.validate_content.riskLevel
        /\ returned.check_content_safety.recommendation
              = returned.validate_content.recommendation

====
